---- MODULE Spec2Model ----
(***************************************************************************)
(* Fileway: LAN file transfer (src/fileTransfer.js, class FileTransfer).   *)
(* One receiving FileTransfer instance (server side) and, per connection,  *)
(* one sendFile call on a sending instance.  The network delivers each     *)
(* direction of a connection as a byte stream cut into arbitrary non-empty *)
(* data events.                                                            *)
(***************************************************************************)
EXTENDS Integers, Sequences, FiniteSets, TLC

\* ------------------------------------------------------------------ bounds
MaxClock == 2       \* readings of Date.now() that can be told apart
MaxFileLen == 3     \* longest source file at statSync time, in bytes
MaxTicks == 16      \* steps of the discovery clock a behaviour can take
MaxEarly == 2       \* body bytes a peer sends without waiting for the ack
MaxRaw == 2         \* tokens of a raw peer in flight or buffered unparsed

\* CHUNK_SIZE is 64 * 1024 in the source; scaled to the model's byte counts
CHUNK_SIZE == 2

\* the connections (one sendFile call each) a behaviour can have
Conns == {1, 2}

\* the connection of the single-transfer specification
RoundTrip == {1}

\* source files of the two-connection specification
OfferContents == {<<>>, <<1>>}
Ids == 1..MaxClock
Bytes == {0, 1}
NUL == 0

\* JS Infinity, the value of Math.round(bytes / 0) for bytes > 0
Infinity == 1000000

\* ----------------------------------------------------------------- helpers
Min(a, b) == IF a < b THEN a ELSE b

Upd(f, c, v) == [f EXCEPT ![c] = v]

SeqsUpTo(n) == UNION {[1..k -> Bytes] : k \in 0..n}

Take(s, k) == SubSeq(s, 1, k)

Drop(s, k) == SubSeq(s, k + 1, Len(s))

\* Buffer.indexOf(0) / String.indexOf('\0'); 0 stands for the source's -1
IndexOfNul(s) ==
    IF \E i \in 1..Len(s) : s[i] = NUL
    THEN CHOOSE i \in 1..Len(s) : s[i] = NUL /\ \A j \in 1..(i - 1) : s[j] # NUL
    ELSE 0

\* JSON.stringify of the offer header: one text token, never the byte 0
HeaderText(id, name, size) == 1000 + 100 * name + 10 * id + size

\* JSON.parse accepts the header text only when it is exactly one token
HeaderParses(s) == Len(s) = 1 /\ s[1] >= 1000

ParseHeader(s) ==
    [transferId |-> ((s[1] - 1000) % 100) \div 10,
     fileName |-> (s[1] - 1000) \div 100,
     fileSize |-> (s[1] - 1000) % 10]

NullInfo == [transferId |-> 0, fileName |-> 0, fileSize |-> 0]

\* the JSON text null: JSON.parse accepts it and returns null, and the read
\* of transferInfo.senderEmail for the transferRequest event then throws
NullText == 999

ParsesToNull(s) == Len(s) = 1 /\ s[1] = NullText

\* the value null as a parsed header; reading a field of it throws
JsNull == [transferId |-> -1, fileName |-> -1, fileSize |-> -1]

\* JSON.stringify({ accepted: b })
AckText(b) == IF b THEN 21 ELSE 20

AckParses(s) == Len(s) = 1 /\ s[1] \in {20, 21}

ParseAck(s) == [accepted |-> (s[1] = 21)]

\* Math.round((bytes / total) * 100)
RoundPercent(bytes, total) ==
    IF total = 0 THEN Infinity
    ELSE (200 * bytes + total) \div (2 * total)

\* the argument of emit('transferProgress', ...)
ProgressEvent(transferId, bytes, total, type) ==
    [name |-> "transferProgress", id |-> transferId,
     progress |-> RoundPercent(bytes, total), type |-> type]

Ev(name, id) == [name |-> name, id |-> id, progress |-> 0, type |-> "-"]

EventNames == {"transferRequest", "transferAccepted", "transferRejected",
               "sendComplete", "transferComplete", "transferCancelled"}

ProgressTypes == {"receiving", "sending"}

\* a promise settles once: resolve and reject after that are ignored
Settle(p, v) == IF p = "pending" THEN v ELSE p

NoPending == [socket |-> 0, transferInfo |-> NullInfo, buffer |-> <<>>]

\* ------------------------------------------------------------------- state
VARIABLES
    clock,            \* Date.now()
    \* sendFile closure, per call
    sSock,            \* sender socket: idle, connecting, open, closed
    sEnded,           \* sender's write side ended (socket.end() or destroyed)
    transferId, fileSize, srcFile,
    grown,            \* the source file was appended to after statSync
    responseReceived, responseBuffer, promise,
    readStream,       \* streamFile's fs.ReadStream: none, reading, ended, error
    sentBytes,
    \* the wire
    s2r, r2s,
    \* handleIncomingConnection closure, per inbound socket
    rSock,            \* receiver socket: none, open, closed
    rEnded,           \* receiver's write side ended
    paused, buffer, headerReceived,
    transferInfo,     \* the parsed header, shared with acceptTransfer's closure
    \* acceptTransfer closure, per accepted socket
    accepted, receivedBytes,
    fileStream,       \* fs.WriteStream: none, writable, ended, destroyed
    fd,               \* its file descriptor: none, opening, open, closed
    destExists, destContent,
    \* FileTransfer instance fields
    pendingTransfer, activeTransfers,
    \* observations
    out,              \* events emitted by the last step, in order
    emitted,          \* how often each event was emitted for each transferId
    progLast,         \* last progress value per type and transferId, -1: none
    rejectedConns,    \* inbound sockets whose offer rejectTransfer has decided
    cancelledConns,   \* inbound sockets whose transfer cancelTransfer has cancelled
    \* DeviceDiscovery instance
    now,              \* Date.now() as the discovery instance reads it
    isRunning,
    socket,           \* this.socket: null, or the dgram socket's state
                      \* (binding, listening, closed)
    broadcastInterval, cleanupInterval,   \* NoTimer or the next due time
    devices,          \* Map deviceId -> deviceInfo
    myDeviceId, myDeviceName, myEmail,
    dOut,             \* discovery events emitted by the last step, in order
    sent,             \* datagrams handed to socket.send by the last step
    stopCalled,       \* stop() was called while running, no start() since
    lastMsg,          \* per deviceId in the table, the record built from the
                      \* last accepted message
    evicted,          \* deviceIds a sweep has removed since the last start()
    \* main.js (src/unnamed/part_001)
    appState,         \* launching, ready (app.whenReady ran), quitting
    created,          \* how many DeviceDiscovery / FileTransfer pairs
                      \* startServices has constructed
    discovery,        \* let discovery: 0 for null, or the instance's number
    fileTransfer,     \* let fileTransfer: 0 for null, or the instance's number
    startedDiscovery, \* DeviceDiscovery instances started and not stopped
    servers,          \* FileTransfer instances whose server is not closed
    portOwner,        \* the instance whose server listens on TRANSFER_PORT
    offerAt,          \* the instance whose pendingTransfer holds an offer
    ipcReturn         \* what the last transfer:accept / transfer:reject returned

senderVars == <<sSock, sEnded, transferId, fileSize, srcFile, grown,
                responseReceived, responseBuffer, promise, readStream, sentBytes>>

wireVars == <<s2r, r2s>>

socketVars == <<rSock, rEnded, paused, buffer, headerReceived, transferInfo>>

streamVars == <<accepted, receivedBytes, fileStream, fd, destExists, destContent>>

instanceVars == <<pendingTransfer, activeTransfers>>

historyVars == <<rejectedConns, cancelledConns>>

obsVars == <<out, emitted, progLast>>

\* ------------------------------------------------- discovery: data
\* (src/fileTransfer.js, class DeviceDiscovery; times in milliseconds)
BROADCAST_INTERVAL == 3000
DEVICE_TIMEOUT == 10000
CLEANUP_INTERVAL == 5000

RECURSIVE GCD(_, _)
GCD(a, b) == IF b = 0 THEN a ELSE GCD(b, a % b)

\* the step of Date.now() that the three periods can tell apart
Quantum == GCD(BROADCAST_INTERVAL, GCD(CLEANUP_INTERVAL, DEVICE_TIMEOUT))

\* JS null and undefined
Null == "null"
Undefined == "undefined"

\* clearInterval'ed or never set timer; otherwise a timer is its next due time
NoTimer == -1

\* device ids on the network segment; an instance is started with one of them
DeviceIds == {"S", "P"}
DeviceNames == {"n1", "n2"}
Emails == {"e1", "e2"}

\* what JSON.parse and the field reads give for the text of a datagram
Datagram(parses, type, deviceId, deviceName, email) ==
    [parses |-> parses, type |-> type, deviceId |-> deviceId,
     deviceName |-> deviceName, email |-> email]

\* inbound datagrams with their source address: noise that is not JSON, JSON
\* of another type, presence of each device id (a second address and a second
\* identity for "P"), presence without a deviceId
Inbound ==
    {<<Datagram(FALSE, Undefined, Undefined, Undefined, Undefined), "ip1">>,
     <<Datagram(TRUE, "other", "P", "n1", "e1"), "ip1">>,
     <<Datagram(TRUE, "presence", "S", "n1", "e1"), "ip1">>,
     <<Datagram(TRUE, "presence", "P", "n1", "e1"), "ip1">>,
     <<Datagram(TRUE, "presence", "P", "n1", "e1"), "ip2">>,
     <<Datagram(TRUE, "presence", "P", "n2", "e2"), "ip1">>,
     <<Datagram(TRUE, "presence", Undefined, "n1", "e1"), "ip1">>}

\* the host's network interfaces as getBroadcastAddresses sees them: the
\* broadcast addresses of the external IPv4 interfaces
InterfaceSets == {<<>>, <<"10.0.0.255">>}

\* os.networkInterfaces() folded to broadcast addresses, with the fallback
getBroadcastAddresses(ifs) ==
    IF Len(ifs) = 0 THEN <<"255.255.255.255">> ELSE ifs

\* a JS Map as its entries in insertion order
MapKeys(m) == {m[k].key : k \in DOMAIN m}
Has(m, key) == key \in MapKeys(m)
Get(m, key) == m[CHOOSE k \in DOMAIN m : m[k].key = key].value
SetAppend(m, key, value) == Append(m, [key |-> key, value |-> value])
Set(m, key, value) ==
    IF Has(m, key)
    THEN [k \in DOMAIN m |->
            IF m[k].key = key THEN [key |-> key, value |-> value] ELSE m[k]]
    ELSE Append(m, [key |-> key, value |-> value])
ValuesButLast(m) == [k \in 1..(Len(m) - 1) |-> m[k].value]
Values(m) == [k \in DOMAIN m |-> m[k].value]

NoInfo == [deviceId |-> Undefined, deviceName |-> Undefined,
           email |-> Undefined, ip |-> Undefined, lastSeen |-> -1]

\* an emitted discovery event: its name, its record and its list argument
DEv(name, info, list) == [name |-> name, info |-> info, list |-> list]

discVars == <<now, isRunning, socket, broadcastInterval, cleanupInterval,
              devices, myDeviceId, myDeviceName, myEmail, dOut, sent,
              stopCalled, lastMsg, evicted>>

transferVars == <<clock, senderVars, wireVars, socketVars, streamVars,
                  instanceVars, historyVars, obsVars>>

\* DeviceDiscovery constructor
DiscoveryInit ==
    /\ now = 0
    /\ isRunning = FALSE
    /\ socket = Null
    /\ broadcastInterval = NoTimer
    /\ cleanupInterval = NoTimer
    /\ devices = <<>>
    /\ myDeviceId = Null
    /\ myDeviceName = Null
    /\ myEmail = Null
    /\ dOut = <<>>
    /\ sent = <<>>
    /\ stopCalled = FALSE
    /\ lastMsg = [i \in DeviceIds \cup {Undefined} |-> NoInfo]
    /\ evicted = {}

mainVars == <<appState, created, discovery, fileTransfer, startedDiscovery,
              servers, portOwner, offerAt, ipcReturn>>

\* main.js at load: no window, no services
MainInit ==
    /\ appState = "launching"
    /\ created = 0
    /\ discovery = 0
    /\ fileTransfer = 0
    /\ startedDiscovery = {}
    /\ servers = {}
    /\ portOwner = 0
    /\ offerAt = 0
    /\ ipcReturn = "none"

vars == <<transferVars, discVars, mainVars>>

\* ------------------------------------------------------------ observations
CountIn(evs, n, i) == Cardinality({k \in DOMAIN evs : evs[k].name = n /\ evs[k].id = i})

LastProgress(evs, t, i, old) ==
    LET ks == {k \in DOMAIN evs : evs[k].name = "transferProgress"
                                  /\ evs[k].type = t /\ evs[k].id = i}
    IN IF ks = {} THEN old
       ELSE evs[CHOOSE k \in ks : \A j \in ks : j <= k].progress

\* EventEmitter.emit for the events of one step, in order
Observe(evs) ==
    /\ out' = evs
    /\ emitted' = [n \in EventNames |->
                     [i \in Ids |-> emitted[n][i] + CountIn(evs, n, i)]]
    /\ progLast' = [t \in ProgressTypes |->
                      [i \in Ids |-> LastProgress(evs, t, i, progLast[t][i])]]

Init ==
    /\ clock = 1
    /\ sSock = [c \in Conns |-> "idle"]
    /\ sEnded = [c \in Conns |-> FALSE]
    /\ transferId = [c \in Conns |-> 0]
    /\ fileSize = [c \in Conns |-> 0]
    /\ srcFile = [c \in Conns |-> <<>>]
    /\ grown = [c \in Conns |-> FALSE]
    /\ responseReceived = [c \in Conns |-> FALSE]
    /\ responseBuffer = [c \in Conns |-> <<>>]
    /\ promise = [c \in Conns |-> "none"]
    /\ readStream = [c \in Conns |-> "none"]
    /\ sentBytes = [c \in Conns |-> 0]
    /\ s2r = [c \in Conns |-> <<>>]
    /\ r2s = [c \in Conns |-> <<>>]
    /\ rSock = [c \in Conns |-> "none"]
    /\ rEnded = [c \in Conns |-> FALSE]
    /\ paused = [c \in Conns |-> FALSE]
    /\ buffer = [c \in Conns |-> <<>>]
    /\ headerReceived = [c \in Conns |-> FALSE]
    /\ transferInfo = [c \in Conns |-> NullInfo]
    /\ accepted = [c \in Conns |-> FALSE]
    /\ receivedBytes = [c \in Conns |-> 0]
    /\ fileStream = [c \in Conns |-> "none"]
    /\ fd = [c \in Conns |-> "none"]
    /\ destExists = [c \in Conns |-> FALSE]
    /\ destContent = [c \in Conns |-> <<>>]
    /\ pendingTransfer = NoPending
    /\ activeTransfers = [i \in Ids |-> 0]
    /\ out = <<>>
    /\ emitted = [n \in EventNames |-> [i \in Ids |-> 0]]
    /\ progLast = [t \in ProgressTypes |-> [i \in Ids |-> -1]]
    /\ rejectedConns = {}
    /\ cancelledConns = {}
    /\ DiscoveryInit
    /\ MainInit

\* ------------------------------------------------------------ sending side
\* the clock behind Date.now() advances
Tick(S) ==
    /\ clock < MaxClock
    /\ \E c \in S : sSock[c] = "idle"
    /\ clock' = clock + 1
    /\ Observe(<<>>)
    /\ UNCHANGED <<senderVars, wireVars, socketVars, streamVars, instanceVars,
                   historyVars>>
    /\ UNCHANGED <<discVars, mainVars>>

\* sendFile up to net.createConnection: statSync, Date.now(), new socket
SendFile(c, content) ==
    /\ sSock[c] = "idle"
    /\ \A d \in Conns : d < c => sSock[d] # "idle"
    /\ transferId' = Upd(transferId, c, clock)
    /\ fileSize' = Upd(fileSize, c, Len(content))
    /\ srcFile' = Upd(srcFile, c, content)
    /\ sSock' = Upd(sSock, c, "connecting")
    /\ promise' = Upd(promise, c, "pending")
    /\ Observe(<<>>)
    /\ UNCHANGED <<clock, sEnded, grown, responseReceived, responseBuffer,
                   readStream, sentBytes, wireVars, socketVars, streamVars,
                   instanceVars, historyVars>>
    /\ UNCHANGED <<discVars, mainVars>>

\* another program appends a byte to the source file between statSync and
\* the creation of the read stream
FileAppend(c, b) ==
    /\ sSock[c] = "connecting"
    /\ ~grown[c]
    /\ srcFile' = Upd(srcFile, c, Append(srcFile[c], b))
    /\ grown' = Upd(grown, c, TRUE)
    /\ Observe(<<>>)
    /\ UNCHANGED <<clock, sSock, sEnded, transferId, fileSize, responseReceived,
                   responseBuffer, promise, readStream, sentBytes, wireVars,
                   socketVars, streamVars, instanceVars, historyVars>>
    /\ UNCHANGED <<discVars, mainVars>>

\* socket 'connect': the header is written; the server's connection
\* callback runs handleIncomingConnection on the new inbound socket
Connect(c) ==
    /\ sSock[c] = "connecting"
    /\ sSock' = Upd(sSock, c, "open")
    /\ s2r' = Upd(s2r, c, <<HeaderText(transferId[c], c, fileSize[c]), NUL>>)
    /\ rSock' = Upd(rSock, c, "open")
    /\ Observe(<<>>)
    /\ UNCHANGED <<clock, sEnded, transferId, fileSize, srcFile, grown,
                   responseReceived, responseBuffer, promise, readStream,
                   sentBytes, r2s, rEnded, paused, buffer, headerReceived,
                   transferInfo, streamVars, instanceVars, historyVars>>
    /\ UNCHANGED <<discVars, mainVars>>

\* sendFile's socket.on('data'), for a data event of k bytes
SenderData(c, k) ==
    /\ sSock[c] = "open"
    /\ k \in 1..Len(r2s[c])
    /\ r2s' = Upd(r2s, c, Drop(r2s[c], k))
    /\ LET data == Take(r2s[c], k)
           rb == responseBuffer[c] \o data
           nullIndex == IndexOfNul(rb)
           responseStr == Take(rb, nullIndex - 1)
       IN IF responseReceived[c]
          THEN /\ Observe(<<>>)
               /\ UNCHANGED <<responseBuffer, responseReceived, readStream,
                              sEnded, promise>>
          ELSE /\ responseBuffer' = Upd(responseBuffer, c, rb)
               /\ IF nullIndex = 0
                  THEN /\ Observe(<<>>)
                       /\ UNCHANGED <<responseReceived, readStream, sEnded, promise>>
                  ELSE IF ~AckParses(responseStr)
                  THEN /\ promise' = Upd(promise, c, Settle(promise[c], "rejected"))
                       /\ Observe(<<>>)
                       /\ UNCHANGED <<responseReceived, readStream, sEnded>>
                  ELSE IF ParseAck(responseStr).accepted
                  THEN /\ responseReceived' = Upd(responseReceived, c, TRUE)
                       /\ readStream' = Upd(readStream, c, "reading")
                       /\ Observe(<<Ev("transferAccepted", transferId[c])>>)
                       /\ UNCHANGED <<sEnded, promise>>
                  ELSE /\ responseReceived' = Upd(responseReceived, c, TRUE)
                       /\ sEnded' = Upd(sEnded, c, TRUE)
                       /\ promise' = Upd(promise, c,
                                         Settle(promise[c], "resolvedRejected"))
                       /\ Observe(<<Ev("transferRejected", transferId[c])>>)
                       /\ UNCHANGED readStream
    /\ UNCHANGED <<clock, sSock, transferId, fileSize, srcFile, grown, sentBytes,
                   s2r, socketVars, streamVars, instanceVars, historyVars>>
    /\ UNCHANGED <<discVars, mainVars>>

\* socket.write on the sender's socket: lost once the write side has ended
SenderWrite(c, chunk) ==
    IF sSock[c] = "open" /\ ~sEnded[c] THEN s2r[c] \o chunk ELSE s2r[c]

\* streamFile's fileStream.on('data'): the read stream hands over the next
\* chunk of at most CHUNK_SIZE bytes
FileChunk(c) ==
    /\ readStream[c] = "reading"
    /\ sentBytes[c] < Len(srcFile[c])
    /\ LET n == Min(CHUNK_SIZE, Len(srcFile[c]) - sentBytes[c])
           chunk == SubSeq(srcFile[c], sentBytes[c] + 1, sentBytes[c] + n)
       IN /\ s2r' = Upd(s2r, c, SenderWrite(c, chunk))
          /\ sentBytes' = Upd(sentBytes, c, sentBytes[c] + n)
          /\ Observe(<<ProgressEvent(transferId[c], sentBytes[c] + n,
                                     fileSize[c], "sending")>>)
    /\ UNCHANGED <<clock, sSock, sEnded, transferId, fileSize, srcFile, grown,
                   responseReceived, responseBuffer, promise, readStream, r2s,
                   socketVars, streamVars, instanceVars, historyVars>>
    /\ UNCHANGED <<discVars, mainVars>>

FileEndTwice(c) ==
    /\ readStream[c] = "reading"
    /\ sentBytes[c] = Len(srcFile[c])
    /\ readStream' = Upd(readStream, c, "ended")
    /\ sEnded' = Upd(sEnded, c, TRUE)
    /\ Observe(<<Ev("sendComplete", transferId[c]),
                 Ev("sendComplete", transferId[c])>>)
    /\ UNCHANGED <<clock, sSock, transferId, fileSize, srcFile, grown,
                   responseReceived, responseBuffer, promise, sentBytes,
                   wireVars, socketVars, streamVars, instanceVars, historyVars>>
    /\ UNCHANGED <<discVars, mainVars>>

\* streamFile's fileStream.on('end')
FileEnd(c) ==
    /\ readStream[c] = "reading"
    /\ sentBytes[c] = Len(srcFile[c])
    /\ readStream' = Upd(readStream, c, "ended")
    /\ sEnded' = Upd(sEnded, c, TRUE)
    /\ Observe(<<Ev("sendComplete", transferId[c])>>)
    /\ UNCHANGED <<clock, sSock, transferId, fileSize, srcFile, grown,
                   responseReceived, responseBuffer, promise, sentBytes,
                   wireVars, socketVars, streamVars, instanceVars, historyVars>>
    /\ UNCHANGED <<discVars, mainVars>>

\* streamFile's fileStream.on('error'): a read of the source file fails
FileReadError(c) ==
    /\ readStream[c] = "reading"
    /\ readStream' = Upd(readStream, c, "error")
    /\ sEnded' = Upd(sEnded, c, TRUE)
    /\ Observe(<<>>)
    /\ UNCHANGED <<clock, sSock, transferId, fileSize, srcFile, grown,
                   responseReceived, responseBuffer, promise, sentBytes,
                   wireVars, socketVars, streamVars, instanceVars, historyVars>>
    /\ UNCHANGED <<discVars, mainVars>>

\* sendFile's socket.on('close')
SenderCloseHandler(c, p) ==
    IF responseReceived[c] THEN Settle(p, "resolvedAccepted") ELSE p

\* the receiver's end of the connection has gone and everything it wrote
\* was delivered: the sender's socket emits 'close' without an error
SenderClose(c) ==
    /\ sSock[c] = "open"
    /\ rEnded[c]
    /\ r2s[c] = <<>>
    /\ sSock' = Upd(sSock, c, "closed")
    /\ sEnded' = Upd(sEnded, c, TRUE)
    /\ promise' = Upd(promise, c, SenderCloseHandler(c, promise[c]))
    /\ Observe(<<>>)
    /\ UNCHANGED <<clock, transferId, fileSize, srcFile, grown, responseReceived,
                   responseBuffer, readStream, sentBytes, wireVars, socketVars,
                   streamVars, instanceVars, historyVars>>
    /\ UNCHANGED <<discVars, mainVars>>

\* the sender's socket emits 'error' and then 'close'
SenderError(c) ==
    /\ sSock[c] \in {"connecting", "open"}
    /\ sSock' = Upd(sSock, c, "closed")
    /\ sEnded' = Upd(sEnded, c, TRUE)
    /\ promise' = Upd(promise, c,
                      SenderCloseHandler(c, Settle(promise[c], "rejected")))
    /\ Observe(<<>>)
    /\ UNCHANGED <<clock, transferId, fileSize, srcFile, grown, responseReceived,
                   responseBuffer, readStream, sentBytes, wireVars, socketVars,
                   streamVars, instanceVars, historyVars>>
    /\ UNCHANGED <<discVars, mainVars>>

\* ---------------------------------------------------------- receiving side
\* a write stream that puts each chunk in front of what it has written
StreamWriteInFront(c, chunk) ==
    IF fileStream[c] = "writable" THEN chunk \o destContent[c] ELSE destContent[c]

\* fs.WriteStream.write: bytes are taken only while the stream is writable
StreamWrite(c, chunk) ==
    IF fileStream[c] = "writable" THEN destContent[c] \o chunk ELSE destContent[c]

\* fs.WriteStream.end
StreamEnd(c) == IF fileStream[c] = "writable" THEN "ended" ELSE fileStream[c]

\* Map.has / the truthiness of Map.get
MapHas(m, id) == m[id] # 0

\* Map.delete
MapDelete(m, id) == [m EXCEPT ![id] = 0]

CompleteEvents(c) ==
    IF receivedBytes[c] >= transferInfo[c].fileSize
    THEN <<Ev("transferComplete", transferInfo[c].transferId)>>
    ELSE <<>>

\* the inbound socket emits 'data', 'close' and 'error' events: it is open
\* and not paused
ReadableWhilePaused(c) == rSock[c] = "open"

Readable(c) == rSock[c] = "open" /\ ~paused[c]

\* the two socket.on('data') handlers of an inbound socket, in the order
\* they were registered, for a data event of k bytes
RecvData(c, k) ==
    /\ Readable(c)
    /\ k \in 1..Len(s2r[c])
    /\ s2r' = Upd(s2r, c, Drop(s2r[c], k))
    /\ LET chunk == Take(s2r[c], k)
           buf1 == buffer[c] \o chunk
           nullIndex == IndexOfNul(buf1)
           headerStr == Take(buf1, nullIndex - 1)
           buf2 == Drop(buf1, nullIndex)
           info == ParseHeader(headerStr)
           total == transferInfo[c].fileSize
           id == transferInfo[c].transferId
           rb == receivedBytes[c] + Len(chunk)
       IN IF ~headerReceived[c]
          THEN \* handleIncomingConnection's handler; acceptTransfer's is
               \* not registered before the header was received
               /\ IF nullIndex = 0
                  THEN /\ buffer' = Upd(buffer, c, buf1)
                       /\ Observe(<<>>)
                       /\ UNCHANGED <<headerReceived, transferInfo,
                                      pendingTransfer, paused, rEnded>>
                  ELSE IF HeaderParses(headerStr)
                  THEN /\ buffer' = Upd(buffer, c, buf2)
                       /\ transferInfo' = Upd(transferInfo, c, info)
                       /\ headerReceived' = Upd(headerReceived, c, TRUE)
                       /\ pendingTransfer' = [socket |-> c, transferInfo |-> info,
                                              buffer |-> buf2]
                       /\ paused' = Upd(paused, c, TRUE)
                       /\ Observe(<<Ev("transferRequest", info.transferId)>>)
                       /\ UNCHANGED rEnded
                  ELSE IF ParsesToNull(headerStr)
                  THEN \* the slot is written before emit throws into the catch
                       /\ buffer' = Upd(buffer, c, buf2)
                       /\ transferInfo' = Upd(transferInfo, c, JsNull)
                       /\ headerReceived' = Upd(headerReceived, c, TRUE)
                       /\ pendingTransfer' = [socket |-> c,
                                              transferInfo |-> JsNull,
                                              buffer |-> buf2]
                       /\ rEnded' = Upd(rEnded, c, TRUE)
                       /\ Observe(<<>>)
                       /\ UNCHANGED paused
                  ELSE /\ buffer' = Upd(buffer, c, buf2)
                       /\ rEnded' = Upd(rEnded, c, TRUE)
                       /\ Observe(<<>>)
                       /\ UNCHANGED <<headerReceived, transferInfo,
                                      pendingTransfer, paused>>
               /\ UNCHANGED <<receivedBytes, fileStream, destContent,
                              activeTransfers>>
          ELSE /\ buffer' = Upd(buffer, c, buf1)
               /\ UNCHANGED <<headerReceived, transferInfo, pendingTransfer,
                              paused, rEnded>>
               /\ IF ~accepted[c]
                  THEN /\ Observe(<<>>)
                       /\ UNCHANGED <<receivedBytes, fileStream, destContent,
                                      activeTransfers>>
                  ELSE /\ destContent' = Upd(destContent, c, StreamWrite(c, chunk))
                       /\ receivedBytes' = Upd(receivedBytes, c, rb)
                       /\ IF rb >= total
                          THEN /\ fileStream' = Upd(fileStream, c, StreamEnd(c))
                               /\ activeTransfers' = MapDelete(activeTransfers, id)
                               /\ Observe(<<ProgressEvent(id, rb, total, "receiving"),
                                            Ev("transferComplete", id)>>)
                          ELSE /\ Observe(<<ProgressEvent(id, rb, total, "receiving")>>)
                               /\ UNCHANGED <<fileStream, activeTransfers>>
    /\ UNCHANGED <<clock, senderVars, r2s, rSock, accepted, fd, destExists,
                   historyVars>>
    /\ UNCHANGED <<discVars, mainVars>>

\* the socket.on('close') handlers of an inbound socket (the one of
\* handleIncomingConnection tests its own fileStream, which is never set)
CloseHandlers(c) ==
    /\ rSock' = Upd(rSock, c, "closed")
    /\ rEnded' = Upd(rEnded, c, TRUE)
    /\ IF accepted[c]
       THEN /\ fileStream' = Upd(fileStream, c, StreamEnd(c))
            /\ Observe(CompleteEvents(c))
       ELSE /\ Observe(<<>>)
            /\ UNCHANGED fileStream

\* the sender's end has gone and everything it wrote was read: 'close'
RecvClose(c) ==
    /\ Readable(c)
    /\ sEnded[c]
    /\ s2r[c] = <<>>
    /\ CloseHandlers(c)
    /\ UNCHANGED <<clock, senderVars, wireVars, paused, buffer, headerReceived,
                   transferInfo, accepted, receivedBytes, fd, destExists,
                   destContent, instanceVars, historyVars>>
    /\ UNCHANGED <<discVars, mainVars>>

\* the inbound socket fails: it emits 'error' and then 'close', and what
\* was still on the wire is lost; a paused socket does not read and so
\* does not see the failure before it is resumed
RecvError(c) ==
    /\ Readable(c)
    /\ CloseHandlers(c)
    /\ s2r' = Upd(s2r, c, <<>>)
    /\ UNCHANGED <<clock, senderVars, r2s, paused, buffer, headerReceived,
                   transferInfo, accepted, receivedBytes, fd, destExists,
                   destContent, instanceVars, historyVars>>
    /\ UNCHANGED <<discVars, mainVars>>

\* socket.write on an inbound socket
RecvWrite(c, text) ==
    IF rSock[c] = "open" /\ ~rEnded[c] THEN r2s[c] \o text ELSE r2s[c]

\* the test both acceptTransfer and rejectTransfer start with; on a slot
\* whose transferInfo is null the test throws (no id equals JsNull's)
IsPending(id) ==
    /\ pendingTransfer # NoPending
    /\ pendingTransfer.transferInfo.transferId = id

\* the bytes acceptTransfer finds buffered in the pending offer
BufferedDropped(pending) == <<>>

Buffered(pending) == pending.buffer

AcceptTransfer(id) ==
    /\ IsPending(id)
    /\ LET c == pendingTransfer.socket
           info == pendingTransfer.transferInfo
           buf == Buffered(pendingTransfer)
       IN   /\ r2s' = Upd(r2s, c, RecvWrite(c, <<AckText(TRUE), NUL>>))
            /\ fileStream' = Upd(fileStream, c, "writable")
            /\ fd' = Upd(fd, c, "opening")
            /\ activeTransfers' = [activeTransfers EXCEPT ![id] = c]
            /\ destContent' = Upd(destContent, c, buf)
            /\ receivedBytes' = Upd(receivedBytes, c, Len(buf))
            /\ accepted' = Upd(accepted, c, TRUE)
            /\ paused' = Upd(paused, c, FALSE)
            /\ pendingTransfer' = NoPending
            /\ Observe(IF Len(buf) > 0
                       THEN <<ProgressEvent(id, Len(buf), info.fileSize, "receiving")>>
                       ELSE <<>>)
            /\ UNCHANGED <<clock, senderVars, s2r, rSock, rEnded, buffer,
                           headerReceived, transferInfo, destExists, historyVars>>
    /\ UNCHANGED <<discVars, mainVars>>

RejectTransfer(id) ==
    /\ IsPending(id)
    /\ LET c == pendingTransfer.socket
       IN   /\ r2s' = Upd(r2s, c, RecvWrite(c, <<AckText(FALSE), NUL>>))
            /\ rEnded' = Upd(rEnded, c, TRUE)
            /\ pendingTransfer' = NoPending
            /\ rejectedConns' = rejectedConns \cup {c}
            /\ Observe(<<>>)
            /\ UNCHANGED <<clock, senderVars, s2r, rSock, paused, buffer,
                           headerReceived, transferInfo, streamVars,
                           activeTransfers, cancelledConns>>
    /\ UNCHANGED <<discVars, mainVars>>

CancelTransfer(id) ==
    /\ MapHas(activeTransfers, id)
    /\ LET c == activeTransfers[id]
       IN   /\ fileStream' = Upd(fileStream, c, "destroyed")
            /\ destExists' = Upd(destExists, c, FALSE)
            /\ activeTransfers' = MapDelete(activeTransfers, id)
            /\ cancelledConns' = cancelledConns \cup {c}
            /\ Observe(<<Ev("transferCancelled", id)>>)
            /\ UNCHANGED <<clock, senderVars, wireVars, socketVars, accepted,
                           receivedBytes, fd, destContent, pendingTransfer,
                           rejectedConns>>
    /\ UNCHANGED <<discVars, mainVars>>

\* the open() behind fs.createWriteStream completes: the file is created
FileOpened(c) ==
    /\ fd[c] = "opening"
    /\ fd' = Upd(fd, c, "open")
    /\ destExists' = Upd(destExists, c, TRUE)
    /\ Observe(<<>>)
    /\ UNCHANGED <<clock, senderVars, wireVars, socketVars, accepted,
                   receivedBytes, fileStream, destContent, instanceVars,
                   historyVars>>
    /\ UNCHANGED <<discVars, mainVars>>

\* the close() of an ended or destroyed write stream completes
FileClosed(c) ==
    /\ fd[c] = "open"
    /\ fileStream[c] \in {"ended", "destroyed"}
    /\ fd' = Upd(fd, c, "closed")
    /\ Observe(<<>>)
    /\ UNCHANGED <<clock, senderVars, wireVars, socketVars, accepted,
                   receivedBytes, fileStream, destExists, destContent,
                   instanceVars, historyVars>>
    /\ UNCHANGED <<discVars, mainVars>>

\* ----------------------------------------------------------- specification
\* one sendFile call and its inbound connection, with every fault
Next ==
    \/ \E c \in RoundTrip : \E content \in SeqsUpTo(MaxFileLen) : SendFile(c, content)
    \/ \E c \in RoundTrip : \E b \in Bytes : FileAppend(c, b)
    \/ \E c \in RoundTrip : Connect(c)
    \/ \E c \in RoundTrip : \E k \in 1..Len(r2s[c]) : SenderData(c, k)
    \/ \E c \in RoundTrip : FileChunk(c)
    \/ \E c \in RoundTrip : FileEnd(c)
    \/ \E c \in RoundTrip : FileReadError(c)
    \/ \E c \in RoundTrip : SenderClose(c)
    \/ \E c \in RoundTrip : SenderError(c)
    \/ \E c \in RoundTrip : \E k \in 1..Len(s2r[c]) : RecvData(c, k)
    \/ \E c \in RoundTrip : RecvClose(c)
    \/ \E c \in RoundTrip : RecvError(c)
    \/ \E id \in Ids : AcceptTransfer(id)
    \/ \E id \in Ids : RejectTransfer(id)
    \/ \E id \in Ids : CancelTransfer(id)
    \/ \E c \in RoundTrip : FileOpened(c)
    \/ \E c \in RoundTrip : FileClosed(c)

Spec == Init /\ [][Next]_vars

\* two sendFile calls to the same receiver, without faults
NextOffers ==
    \/ Tick(Conns)
    \/ \E c \in Conns : \E content \in OfferContents : SendFile(c, content)
    \/ \E c \in Conns : Connect(c)
    \/ \E c \in Conns : \E k \in 1..Len(r2s[c]) : SenderData(c, k)
    \/ \E c \in Conns : FileChunk(c)
    \/ \E c \in Conns : FileEnd(c)
    \/ \E c \in Conns : SenderClose(c)
    \/ \E c \in Conns : \E k \in 1..Len(s2r[c]) : RecvData(c, k)
    \/ \E c \in Conns : RecvClose(c)
    \/ \E id \in Ids : AcceptTransfer(id)
    \/ \E id \in Ids : RejectTransfer(id)
    \/ \E id \in Ids : CancelTransfer(id)

SpecOffers == Init /\ [][NextOffers]_vars

\* a peer that does not wait for the ack writes a body byte right behind
\* its header
PeerWrite(c, b) ==
    /\ sSock[c] = "open"
    /\ ~sEnded[c]
    /\ ~responseReceived[c]
    /\ Len(s2r[c]) + Len(buffer[c])
         < MaxEarly + (IF headerReceived[c] THEN 0 ELSE 2)
    /\ s2r' = Upd(s2r, c, SenderWrite(c, <<b>>))
    /\ Observe(<<>>)
    /\ UNCHANGED <<clock, senderVars, r2s, socketVars, streamVars,
                   instanceVars, historyVars>>
    /\ UNCHANGED <<discVars, mainVars>>

NextPeers ==
    \/ \E c \in RoundTrip :
         \/ \E content \in OfferContents : SendFile(c, content)
         \/ Connect(c)
         \/ \E b \in Bytes : PeerWrite(c, b)
         \/ \E k \in 1..Len(r2s[c]) : SenderData(c, k)
         \/ FileChunk(c)
         \/ FileEnd(c)
         \/ SenderClose(c)
         \/ \E k \in 1..Len(s2r[c]) : RecvData(c, k)
         \/ RecvClose(c)
    \/ \E id \in Ids :
         \/ AcceptTransfer(id)
         \/ RejectTransfer(id)
         \/ CancelTransfer(id)

SpecPeers == Init /\ [][NextPeers]_vars

\* a peer that is not sendFile opens a connection and sends nothing yet
PeerConnect(c) ==
    /\ sSock[c] = "idle"
    /\ \A d \in Conns : d < c => sSock[d] # "idle"
    /\ sSock' = Upd(sSock, c, "open")
    /\ rSock' = Upd(rSock, c, "open")
    /\ Observe(<<>>)
    /\ UNCHANGED <<clock, sEnded, transferId, fileSize, srcFile, grown,
                   responseReceived, responseBuffer, promise, readStream,
                   sentBytes, wireVars, rEnded, paused, buffer, headerReceived,
                   transferInfo, streamVars, instanceVars, historyVars>>
    /\ UNCHANGED <<discVars, mainVars>>

\* what such a peer writes on connection c: the delimiter and the text of
\* a well-formed header and, on the second connection, also a byte that is
\* no JSON and the JSON text null
PeerTokens(c) ==
    {NUL, HeaderText(c, c, 1)} \cup (IF c = 1 THEN {} ELSE {1, NullText})

\* the peer writes one token, whatever the receiver has done to the
\* connection so far
PeerSend(c, t) ==
    /\ sSock[c] = "open"
    /\ Len(s2r[c]) + Len(buffer[c]) < MaxRaw
    /\ s2r' = Upd(s2r, c, SenderWrite(c, <<t>>))
    /\ Observe(<<>>)
    /\ UNCHANGED <<clock, senderVars, r2s, socketVars, streamVars,
                   instanceVars, historyVars>>
    /\ UNCHANGED <<discVars, mainVars>>

NextRaw ==
    \/ \E c \in Conns :
         \/ PeerConnect(c)
         \/ \E t \in PeerTokens(c) : PeerSend(c, t)
         \/ \E k \in 1..Len(s2r[c]) : RecvData(c, k)
    \/ \E id \in Ids :
         \/ AcceptTransfer(id)
         \/ RejectTransfer(id)
         \/ CancelTransfer(id)

SpecRaw == Init /\ [][NextRaw]_vars

\* ---------------------------------------------------- discovery: actions
\* the broadcast closure of startBroadcasting, run on socket state sock:
\* the datagrams it hands to socket.send (none when send throws on a
\* closed socket)
BroadcastAnonymous(sock, ifs) ==
    IF sock = Null \/ sock = "closed" THEN <<>>
    ELSE LET addrs == getBroadcastAddresses(ifs)
         IN [k \in DOMAIN addrs |->
               [type |-> "presence", deviceId |-> myDeviceId,
                deviceName |-> myDeviceName, email |-> myEmail,
                timestamp |-> now, addr |-> addrs[k]]]
Broadcast(sock, ifs) ==
    IF sock = Null \/ myEmail = Null \/ sock = "closed" THEN <<>>
    ELSE LET addrs == getBroadcastAddresses(ifs)
         IN [k \in DOMAIN addrs |->
               [type |-> "presence", deviceId |-> myDeviceId,
                deviceName |-> myDeviceName, email |-> myEmail,
                timestamp |-> now, addr |-> addrs[k]]]

\* start(deviceId, deviceName, email)
Start(id, name, email) ==
    /\ IF isRunning
       THEN UNCHANGED <<myDeviceId, myDeviceName, myEmail, socket, isRunning,
                        cleanupInterval>>
       ELSE /\ myDeviceId' = id
            /\ myDeviceName' = name
            /\ myEmail' = email
            /\ socket' = "binding"
            /\ isRunning' = TRUE
            /\ cleanupInterval' = now + CLEANUP_INTERVAL
    /\ stopCalled' = FALSE
    /\ dOut' = <<>>
    /\ sent' = <<>>
    /\ evicted' = {}
    /\ UNCHANGED <<now, broadcastInterval, devices, lastMsg, transferVars, mainVars>>

\* the socket's 'listening' callback; dgram does not run it for a socket
\* closed before the bind completed
Listening(ifs) ==
    /\ socket = "binding"
    /\ socket' = "listening"
    /\ sent' = Broadcast("listening", ifs)
    /\ broadcastInterval' = now + BROADCAST_INTERVAL
    /\ dOut' = <<>>
    /\ UNCHANGED <<now, isRunning, cleanupInterval, devices, myDeviceId,
                   myDeviceName, myEmail, stopCalled, lastMsg, transferVars,
                   mainVars, evicted>>

\* the socket's 'error' callback closes the socket and keeps the reference
SocketError ==
    /\ socket \in {"binding", "listening"}
    /\ socket' = "closed"
    /\ dOut' = <<>>
    /\ sent' = <<>>
    /\ UNCHANGED <<now, isRunning, broadcastInterval, cleanupInterval, devices,
                   myDeviceId, myDeviceName, myEmail, stopCalled, lastMsg,
                   transferVars, mainVars, evicted>>

\* stop(); close() of an already closed dgram socket throws, which ends
\* stop() after the timers were cleared
Stop ==
    /\ IF ~isRunning
       THEN UNCHANGED <<broadcastInterval, cleanupInterval, socket, devices,
                        isRunning, stopCalled>>
       ELSE /\ broadcastInterval' = NoTimer
            /\ cleanupInterval' = NoTimer
            /\ stopCalled' = TRUE
            /\ IF socket = "closed"
               THEN UNCHANGED <<socket, devices, isRunning>>
               ELSE /\ socket' = Null
                    /\ devices' = <<>>
                    /\ isRunning' = FALSE
    /\ lastMsg' = [i \in DOMAIN lastMsg |->
                     IF Has(devices', i) THEN lastMsg[i] ELSE NoInfo]
    /\ dOut' = <<>>
    /\ sent' = <<>>
    /\ UNCHANGED <<now, myDeviceId, myDeviceName, myEmail, transferVars,
                   mainVars, evicted>>

updateEmail(email) ==
    /\ myEmail' = email
    /\ dOut' = <<>>
    /\ sent' = <<>>
    /\ UNCHANGED <<now, isRunning, socket, broadcastInterval, cleanupInterval,
                   devices, myDeviceId, myDeviceName, stopCalled, lastMsg,
                   transferVars, mainVars, evicted>>

updateDeviceName(name) ==
    /\ myDeviceName' = name
    /\ dOut' = <<>>
    /\ sent' = <<>>
    /\ UNCHANGED <<now, isRunning, socket, broadcastInterval, cleanupInterval,
                   devices, myDeviceId, myEmail, stopCalled, lastMsg,
                   transferVars, mainVars, evicted>>

\* a tick of setInterval(broadcast, BROADCAST_INTERVAL)
BroadcastTick(ifs) ==
    /\ broadcastInterval = now
    /\ sent' = Broadcast(socket, ifs)
    /\ broadcastInterval' = now + BROADCAST_INTERVAL
    /\ dOut' = <<>>
    /\ UNCHANGED <<now, isRunning, socket, cleanupInterval, devices,
                   myDeviceId, myDeviceName, myEmail, stopCalled, lastMsg,
                   transferVars, mainVars, evicted>>

\* the deviceInfo handleMessage builds
DeviceInfo(data, ip) ==
    [deviceId |-> data.deviceId, deviceName |-> data.deviceName,
     email |-> data.email, ip |-> ip, lastSeen |-> now]

AcceptsOwn(data) ==
    /\ data.parses
    /\ data.type = "presence"

\* handleMessage passes the parse and the two early returns
Accepts(data) ==
    /\ data.parses
    /\ data.type = "presence"
    /\ data.deviceId # myDeviceId

\* the socket's 'message' callback: handleMessage(msg, rinfo)
handleMessage(data, ip) ==
    /\ socket = "listening"
    /\ IF Accepts(data)
       THEN LET deviceInfo == DeviceInfo(data, ip)
                isNew == ~Has(devices, data.deviceId)
            IN /\ devices' = Set(devices, data.deviceId, deviceInfo)
               /\ lastMsg' = [lastMsg EXCEPT ![data.deviceId] = deviceInfo]
               /\ dOut' = (IF isNew
                           THEN <<DEv("deviceFound", deviceInfo, <<>>)>>
                           ELSE <<>>)
                          \o <<DEv("devicesUpdated", NoInfo, Values(devices'))>>
       ELSE /\ dOut' = <<>>
            /\ UNCHANGED <<devices, lastMsg>>
    /\ sent' = <<>>
    /\ UNCHANGED <<now, isRunning, socket, broadcastInterval, cleanupInterval,
                   myDeviceId, myDeviceName, myEmail, stopCalled, transferVars,
                   mainVars, evicted>>

\* the test of cleanupStaleDevices
IsStaleAtTimeout(info) == now - info.lastSeen >= DEVICE_TIMEOUT
IsStale(info) == now - info.lastSeen > DEVICE_TIMEOUT

\* a tick of setInterval(cleanupStaleDevices, 5000)
cleanupStaleDevices ==
    /\ cleanupInterval = now
    /\ LET stale == SelectSeq(devices, LAMBDA e : IsStale(e.value))
           changed == Len(stale) > 0
       IN /\ devices' = SelectSeq(devices, LAMBDA e : ~IsStale(e.value))
          /\ dOut' = [k \in DOMAIN stale |->
                        DEv("deviceLost", stale[k].value, <<>>)]
                     \o (IF changed
                         THEN <<DEv("devicesUpdated", NoInfo, Values(devices'))>>
                         ELSE <<>>)
    /\ lastMsg' = [i \in DOMAIN lastMsg |->
                     IF Has(devices', i) THEN lastMsg[i] ELSE NoInfo]
    /\ evicted' = evicted \cup (MapKeys(devices) \ MapKeys(devices'))
    /\ cleanupInterval' = now + CLEANUP_INTERVAL
    /\ sent' = <<>>
    /\ UNCHANGED <<now, isRunning, socket, broadcastInterval, myDeviceId,
                   myDeviceName, myEmail, stopCalled, transferVars, mainVars>>

\* Date.now() advances; a timer that is due fires first, and the bind
\* completes before the clock moves
Advance ==
    /\ now < MaxTicks * Quantum
    /\ isRunning
    /\ socket # "binding"
    /\ broadcastInterval # now
    /\ cleanupInterval # now
    /\ now' = now + Quantum
    /\ dOut' = <<>>
    /\ sent' = <<>>
    /\ UNCHANGED <<isRunning, socket, broadcastInterval, cleanupInterval,
                   devices, myDeviceId, myDeviceName, myEmail, stopCalled,
                   lastMsg, transferVars, mainVars, evicted>>

NextDiscovery ==
    \/ \E id \in DeviceIds : Start(id, "n1", "e1")
    \/ \E ifs \in InterfaceSets : Listening(ifs)
    \/ SocketError
    \/ Stop
    \/ \E ifs \in InterfaceSets : BroadcastTick(ifs)
    \/ \E m \in Inbound : handleMessage(m[1], m[2])
    \/ cleanupStaleDevices
    \/ Advance

SpecDiscovery == Init /\ [][NextDiscovery]_vars

\* ------------------------------------------------------------------ claims
\* the events of the last step that the receiver emitted for a transferId
HasEvent(evs, name, id) == \E k \in DOMAIN evs : evs[k].name = name /\ evs[k].id = id

HasReceiveProgress(evs, id) ==
    \E k \in DOMAIN evs : /\ evs[k].name = "transferProgress"
                          /\ evs[k].type = "receiving"
                          /\ evs[k].id = id

\* C1: the receiver emits transferComplete at most once (and so, when the
\* transfer completes, exactly once) for a transferId, whether the threshold
\* is reached in a data event or seen at the close of the connection
C1_SingleCompletion == \A id \in Ids : emitted["transferComplete"][id] <= 1

\* C2: in a transfer from sendFile to acceptTransfer (the source file left
\* alone while it is sent, the transfer not cancelled), whenever
\* transferComplete is emitted the bytes written to the destination file
\* are the source bytes in order and receivedBytes equals fileSize
C2_RoundTrip ==
    \A c \in Conns :
        (/\ accepted[c]
         /\ HasEvent(out, "transferComplete", transferInfo[c].transferId)
         /\ ~grown[c]
         /\ c \notin cancelledConns)
        => /\ destContent[c] = srcFile[c]
           /\ receivedBytes[c] = fileSize[c]
           /\ transferInfo[c].fileSize = fileSize[c]

\* a file of one full chunk and a rest, with different bytes, has completed
C2_Witness ==
    /\ accepted[1]
    /\ HasEvent(out, "transferComplete", transferInfo[1].transferId)
    /\ ~grown[1]
    /\ 1 \notin cancelledConns
    /\ srcFile[1] = <<1, 0, 1>>
    /\ destContent[1] = <<1, 0, 1>>

\* the transferId the header of inbound socket c carried
IdOf(c) == transferInfo[c].transferId

\* C3: once rejectTransfer(id) has returned true the connection of the
\* offer is ended, no destination file was created or written for it, the
\* active-transfer map has no entry for id, and no transferProgress or
\* transferComplete is emitted for id any more
C3_RejectionPath ==
    \A c \in rejectedConns :
        /\ rEnded[c]
        /\ fileStream[c] = "none"
        /\ ~destExists[c]
        /\ destContent[c] = <<>>
        /\ ~MapHas(activeTransfers, IdOf(c))
        /\ ~HasReceiveProgress(out, IdOf(c))
        /\ ~HasEvent(out, "transferComplete", IdOf(c))

\* an offer with this transferId was presented and is not yet decided
OfferAwaiting(id) ==
    \E c \in Conns : /\ headerReceived[c]
                     /\ IdOf(c) = id
                     /\ ~accepted[c]
                     /\ c \notin rejectedConns

\* acceptTransfer or rejectTransfer has returned true for this transferId
Decided(id) ==
    \E c \in Conns : IdOf(c) = id /\ (accepted[c] \/ c \in rejectedConns)

\* C4: acceptTransfer(id) and rejectTransfer(id) return true only while an
\* offer with that transferId awaits a decision, and once one of them has
\* returned true for id every later call with id returns false
C4_DecidedOnce ==
    \A id \in Ids :
        /\ IsPending(id) => OfferAwaiting(id)
        /\ Decided(id) => ~IsPending(id)

\* C5: after cancelTransfer(id) has returned true no byte is written to
\* the destination file of that transfer and no transferProgress or
\* transferComplete is emitted for id
C5_CancelIsTerminal ==
    [][\A c \in cancelledConns :
          /\ destContent'[c] = destContent[c]
          /\ ~HasReceiveProgress(out', IdOf(c))
          /\ ~HasEvent(out', "transferComplete", IdOf(c))]_vars

\* what cancelTransfer(id) returns in the current state
CancelReturns(id) == MapHas(activeTransfers, id)

\* transfer id was accepted and has not completed, failed or been cancelled
ActivelyStreaming(id) ==
    \E c \in Conns : /\ accepted[c]
                     /\ IdOf(c) = id
                     /\ c \notin cancelledConns
                     /\ rSock[c] = "open"
                     /\ emitted["transferComplete"][id] = 0

\* C6: cancelTransfer(id) returns true only if transfer id is actively
\* streaming
C6_CancelOnlyStreaming == \A id \in Ids : CancelReturns(id) => ActivelyStreaming(id)

\* C7: once a cancel has returned and the write stream has finished
\* closing, the partial destination file does not exist
C7_PartialFileGone ==
    \A c \in cancelledConns : fd[c] = "closed" => ~destExists[c]

\* C8: the progress values of a transferId, on the sending and on the
\* receiving side, never decrease and never exceed 100
C8_ProgressBounded ==
    [][\A t \in ProgressTypes : \A id \in Ids :
          /\ progLast[t][id] <= progLast'[t][id]
          /\ progLast'[t][id] <= 100]_vars

\* C9: when the connection of a sendFile call has closed, its promise is
\* settled
C9_SendSettles ==
    \A c \in Conns :
        sSock[c] = "closed" => promise[c] \in {"resolvedAccepted", "resolvedRejected", "rejected"}

\* C10: a sendFile call whose source file failed to read, or whose body was
\* not sent in full, does not resolve with accepted = true
C10_SendErrorFails ==
    \A c \in Conns :
        promise[c] = "resolvedAccepted"
        => /\ readStream[c] = "ended"
           /\ sentBytes[c] = Len(srcFile[c])

\* ------------------------------------------------------------------- C11
SendCompletes(c) ==
    IF transferId[c] \in Ids THEN emitted["sendComplete"][transferId[c]] ELSE 0

\* C11: for one offer the sender emits sendComplete at most once, and exactly
\* once as soon as the accepted file has been read to its end; an offer that
\* was answered with a rejection has no sendComplete, no read stream and no
\* body byte sent
C11_OneSendComplete ==
    \A c \in Conns :
        /\ SendCompletes(c) <= 1
        /\ (readStream[c] = "ended") <=> (SendCompletes(c) = 1)
        /\ promise[c] = "resolvedRejected"
           => /\ SendCompletes(c) = 0
              /\ readStream[c] = "none"
              /\ sentBytes[c] = 0

C11_Witness ==
    /\ readStream[1] = "ended"
    /\ responseReceived[1]
    /\ Len(srcFile[1]) = 3
    /\ sentBytes[1] = 3
    /\ SendCompletes(1) = 1

\* ------------------------------------------------------------------- C12
\* C12: any two sendFile calls carry different transferIds
C12_UniqueIds ==
    \A c, d \in Conns :
        (c # d /\ sSock[c] # "idle" /\ sSock[d] # "idle")
        => transferId[c] # transferId[d]

\* ------------------------------------------------------------------- C13
\* what getDeviceList returns
getDeviceList == Values(devices)

\* C13: no record of the device table, under any key, carries the
\* instance's own deviceId
C13_SelfExclusion ==
    /\ ~Has(devices, myDeviceId)
    /\ \A k \in DOMAIN getDeviceList : getDeviceList[k].deviceId # myDeviceId

\* the instance runs as "P" and lists "S" and one more device
C13_Witness ==
    /\ myDeviceId = "P"
    /\ socket = "listening"
    /\ Has(devices, "S")
    /\ Len(getDeviceList) = 2
    /\ now > 0

\* ------------------------------------------------------------------- C14
\* C14: every record of the device table satisfies now - lastSeen <= timeout
C14_NeverOutlives ==
    \A k \in DOMAIN getDeviceList :
        now - getDeviceList[k].lastSeen <= DEVICE_TIMEOUT

\* ------------------------------------------------------------------- C15
\* started, and stop() not called since
Running == isRunning /\ ~stopCalled

\* how many events named name the sequence evs holds for device id
CountFor(evs, name, id) ==
    Cardinality({k \in DOMAIN evs : evs[k].name = name
                                    /\ evs[k].info.deviceId = id})

\* a sweep took id out of the table in this step
Evicts(id) == Has(devices, id) /\ ~Has(devices', id) /\ isRunning'

\* C15: while discovery runs, (a) no record stays in the table once it is
\* older than the timeout plus one sweep period, (b) a step that evicts a
\* device emits exactly one deviceLost for it, and deviceLost is emitted only
\* for a device evicted in that step and stale at that time, (c) a presence
\* message that puts an evicted device back into the table emits deviceFound
C15_Eviction ==
    /\ [](Running
          => \A k \in DOMAIN getDeviceList :
               now - getDeviceList[k].lastSeen
                 <= DEVICE_TIMEOUT + CLEANUP_INTERVAL)
    /\ [][\A id \in DOMAIN lastMsg :
            /\ Evicts(id)
               => /\ CountFor(dOut', "deviceLost", id) = 1
                  /\ IsStale(Get(devices, id))
            /\ CountFor(dOut', "deviceLost", id) > 0 => Evicts(id)
            /\ (id \in evicted /\ ~Has(devices, id) /\ Has(devices', id))
               => /\ CountFor(dOut', "deviceFound", id) = 1
                  /\ dOut'[1] = DEv("deviceFound", Get(devices', id), <<>>)]_vars

\* ------------------------------------------------------------------- C16
\* C16: the device table holds at most one record per deviceId, stored under
\* that id, and the record is the one built from the most recently accepted
\* message of that id (its deviceName, email, source ip and lastSeen)
C16_IdempotentUpsert ==
    /\ \A j, k \in DOMAIN devices : devices[j].key = devices[k].key => j = k
    /\ \A k \in DOMAIN devices :
        /\ devices[k].value.deviceId = devices[k].key
        /\ devices[k].value = lastMsg[devices[k].key]

\* "P", already listed, is heard again from another address: the step emits
\* the snapshot only and the record carries the new ip and time
C16_Witness ==
    /\ Len(devices) = 2
    /\ Has(devices, "P")
    /\ Get(devices, "P").ip = "ip2"
    /\ Get(devices, "P").lastSeen = now
    /\ Get(devices, Undefined).lastSeen < now
    /\ Len(dOut) = 1
    /\ dOut[1].name = "devicesUpdated"
    /\ dOut[1].list = getDeviceList

\* ------------------------------------------------------------------- C17
\* C17: from a stop() called on a running instance until the next start(),
\* both timers are cancelled, the socket is closed and released, the table
\* is empty, the instance is not running, nothing is sent and no event is
\* emitted; and a step taken while the instance is not running, stop()
\* included, changes none of its fields
C17_StopStops ==
    /\ [](stopCalled
          => /\ broadcastInterval = NoTimer
             /\ cleanupInterval = NoTimer
             /\ socket = Null
             /\ devices = <<>>
             /\ ~isRunning
             /\ sent = <<>>
             /\ dOut = <<>>)
    /\ [][(~isRunning /\ ~isRunning')
          => UNCHANGED <<socket, broadcastInterval, cleanupInterval, devices,
                         myDeviceId, myDeviceName, myEmail>>]_vars

\* ------------------------------------------------------------------- C18
\* the accepted transfer of inbound socket c has reached a terminal state:
\* cancelled, its file stream ended (completion), or its socket closed
\* (completion at close, or failure)
Terminal(c) ==
    /\ accepted[c]
    /\ \/ c \in cancelledConns
       \/ fileStream[c] = "ended"
       \/ rSock[c] = "closed"

\* C18: a receive-side transfer that has reached a terminal state has no
\* entry in the active-transfer map
C18_RemovedAtTerminal ==
    \A c \in Conns : Terminal(c) => ~MapHas(activeTransfers, IdOf(c))

\* ------------------------------------------------------------------- C19
\* inbound socket c is in OfferPresented: its header is parsed, the offer
\* was notified with transferRequest, its reads are suspended and no
\* decision has been taken for it
OfferPresented(c) ==
    /\ rSock[c] = "open"
    /\ headerReceived[c]
    /\ paused[c]
    /\ ~accepted[c]
    /\ c \notin rejectedConns

\* C19: at most one inbound connection is in OfferPresented
C19_SingleOffer == Cardinality({c \in Conns : OfferPresented(c)}) <= 1

\* ------------------------------------------------------------------- C20
\* C20: while an offer is in OfferPresented, a step that does not accept it
\* takes no byte from its connection (the bytes in flight stay in front,
\* the handler's buffer and byte count do not change); and an inbound
\* connection whose offer was not accepted has no destination file, no
\* write stream and no byte written
C20_Backpressure ==
    /\ [](\A c \in Conns :
            ~accepted[c]
            => /\ destContent[c] = <<>>
               /\ fileStream[c] = "none"
               /\ fd[c] = "none"
               /\ ~destExists[c])
    /\ [][\A c \in Conns :
            (OfferPresented(c) /\ ~accepted'[c])
            => /\ buffer'[c] = buffer[c]
               /\ receivedBytes'[c] = receivedBytes[c]
               /\ Len(s2r'[c]) >= Len(s2r[c])
               /\ Take(s2r'[c], Len(s2r[c])) = s2r[c]]_vars

\* an offer awaits its decision while one body byte came with the header
\* and another one waits unread on the connection
C20_Witness ==
    /\ OfferPresented(1)
    /\ pendingTransfer # NoPending
    /\ pendingTransfer.socket = 1
    /\ buffer[1] = <<1>>
    /\ s2r[1] = <<1>>

\* ------------------------------------------------------------------- C21
IsPrefix(s, t) == Len(s) <= Len(t) /\ SubSeq(t, 1, Len(s)) = s

\* C21: the data phase of a connection is what the receiver holds of it
\* (the buffer of the offer window, then the destination file) followed by
\* the bytes still in flight.  The header step keeps every byte behind the
\* delimiter; from then on, while the file is writable, every step keeps
\* what is held as it is and only ever extends the whole at its end (no
\* byte dropped, duplicated or reordered: the bytes buffered with the header
\* come first); receivedBytes counts exactly the bytes written
C21_BufferedPreserved ==
    [][\A c \in Conns :
        LET held == IF accepted[c] THEN destContent[c] ELSE buffer[c]
            heldNext == IF accepted'[c] THEN destContent'[c] ELSE buffer'[c]
            all == buffer[c] \o s2r[c]
        IN /\ (~headerReceived[c] /\ headerReceived'[c])
              => buffer'[c] \o s2r'[c] = Drop(all, IndexOfNul(all))
           /\ (headerReceived[c] /\ (accepted[c] => fileStream[c] = "writable"))
              => /\ IsPrefix(held, heldNext)
                 /\ IsPrefix(held \o s2r[c], heldNext \o s2r'[c])
           /\ (accepted'[c] /\ fileStream[c] \in {"none", "writable"})
              => receivedBytes'[c] = Len(destContent'[c])]_vars

\* acceptTransfer has just written the byte that came in with the header:
\* it is the first byte of the file, it is counted and reported, and the
\* sender has not yet seen the ack
C21_Witness ==
    /\ accepted[1]
    /\ pendingTransfer = NoPending
    /\ ~responseReceived[1]
    /\ s2r[1] = <<1>>
    /\ destContent[1] = <<0>>
    /\ receivedBytes[1] = 1
    /\ Len(out) = 1
    /\ out[1].name = "transferProgress"

\* ------------------------------------------------------------------- C22
\* the receiver has ended inbound connection c itself, without a
\* rejectTransfer: it did so for an invalid header
EndedForInvalidHeader(c) ==
    /\ rSock[c] = "open"
    /\ rEnded[c]
    /\ c \notin rejectedConns

\* a transferRequest was emitted for the header of inbound connection c
Offered(c) == headerReceived[c] /\ transferInfo[c] # JsNull

\* C22: a connection that was closed for an invalid header never has an
\* offer presented from it
C22_NoOfferAfterInvalid ==
    \A c \in Conns : EndedForInvalidHeader(c) => ~Offered(c)


\* C23: the sender writes to the connection only the header and its NUL at
\* connect, and after an ack with accepted = true chunks of at most
\* CHUNK_SIZE bytes in file order; when the read stream ends it has written
\* exactly fileSize bytes and ends the connection
C23_BodyAfterAck ==
    [][\A c \in Conns :
         LET wrote == Drop(s2r'[c], Len(s2r[c]))
         IN /\ (IsPrefix(s2r[c], s2r'[c]) /\ s2r'[c] # s2r[c])
               => \/ /\ sSock[c] = "connecting"
                     /\ ~responseReceived[c]
                     /\ wrote = <<HeaderText(transferId[c], c, fileSize[c]), NUL>>
                  \/ /\ responseReceived[c]
                     /\ readStream[c] = "reading"
                     /\ Len(wrote) <= CHUNK_SIZE
                     /\ wrote = SubSeq(srcFile[c], sentBytes[c] + 1, sentBytes'[c])
            /\ (readStream[c] = "reading" /\ readStream'[c] = "ended")
               => /\ sentBytes[c] = fileSize[c]
                  /\ sEnded'[c]]_vars


\* ------------------------------------------------------------------- C24
\* C24: a step that handles an accepted presence datagram emits exactly one
\* devicesUpdated whose list is the table after the upsert (the sender's
\* record in it, with this address and time), and exactly one deviceFound,
\* before it, if and only if the deviceId was not in the table before; it
\* emits nothing else
C24_SnapshotPerPresence ==
    [][\A m \in Inbound :
         (/\ socket = "listening"
          /\ Accepts(m[1])
          /\ now' = now
          /\ socket' = socket
          /\ handleMessage(m[1], m[2]))
         => LET id == m[1].deviceId
                ups == {k \in DOMAIN dOut' : dOut'[k].name = "devicesUpdated"}
                found == {k \in DOMAIN dOut' : dOut'[k].name = "deviceFound"}
            IN /\ Cardinality(ups) = 1
               /\ \A u \in ups :
                    /\ dOut'[u].list = [j \in DOMAIN devices' |-> devices'[j].value]
                    /\ \E j \in DOMAIN dOut'[u].list :
                         /\ dOut'[u].list[j].deviceId = id
                         /\ dOut'[u].list[j].ip = m[2]
                         /\ dOut'[u].list[j].lastSeen = now
               /\ Cardinality(found) = (IF Has(devices, id) THEN 0 ELSE 1)
               /\ \A f \in found : /\ dOut'[f].info.deviceId = id
                                   /\ \A u \in ups : f < u
               /\ Len(dOut') = Cardinality(ups) + Cardinality(found)]_vars

\* "P" is heard for the first time while another device is listed: the step
\* emitted deviceFound for "P" and then the snapshot of both records
C24_Witness ==
    /\ myDeviceId = "S"
    /\ Len(dOut) = 2
    /\ dOut[1].name = "deviceFound"
    /\ dOut[1].info.deviceId = "P"
    /\ dOut[2].name = "devicesUpdated"
    /\ Len(dOut[2].list) = 2
    /\ dOut[2].list[2].deviceId = "P"
    /\ now > 0


\* ------------------------------------------------------------------- C25
\* C25: a sweep removes exactly the records with now - lastSeen greater than
\* the timeout and keeps the others in order; it emits one deviceLost per
\* removed record and then, if and only if a record was removed, one
\* devicesUpdated whose list is the remaining table; it emits nothing else
C25_SweepExact ==
    [][(cleanupInterval = now /\ cleanupStaleDevices)
       => LET old == {k \in DOMAIN devices :
                        now - devices[k].value.lastSeen > DEVICE_TIMEOUT}
              kept == SelectSeq(devices, LAMBDA e :
                                  now - e.value.lastSeen <= DEVICE_TIMEOUT)
              lost == {k \in DOMAIN dOut' : dOut'[k].name = "deviceLost"}
              ups == {k \in DOMAIN dOut' : dOut'[k].name = "devicesUpdated"}
          IN /\ devices' = kept
             /\ Cardinality(lost) = Cardinality(old)
             /\ \A k \in old :
                  Cardinality({j \in lost : dOut'[j].info = devices[k].value}) = 1
             /\ Cardinality(ups) = (IF old = {} THEN 0 ELSE 1)
             /\ \A u \in ups :
                  /\ dOut'[u].list = [j \in DOMAIN kept |-> kept[j].value]
                  /\ \A j \in lost : j < u
                  /\ \A k \in old, j \in DOMAIN dOut'[u].list :
                       dOut'[u].list[j].deviceId # devices[k].key
             /\ Len(dOut') = Cardinality(lost) + Cardinality(ups)]_vars

\* a sweep removed the older of two records and kept the one heard within
\* the timeout
C25_Witness ==
    /\ Len(dOut) = 2
    /\ dOut[1].name = "deviceLost"
    /\ dOut[2].name = "devicesUpdated"
    /\ Len(dOut[2].list) = 1
    /\ Len(devices) = 1
    /\ now - devices[1].value.lastSeen <= DEVICE_TIMEOUT
    /\ evicted # {}


\* ------------------------------------------------------------------- C26
\* the datagram is JSON of type "presence" with a deviceId
PresenceSchema(data) ==
    /\ data.parses
    /\ data.type = "presence"
    /\ data.deviceId # Undefined

\* C26: a step that handles a datagram which is not JSON, has another type
\* or has no deviceId leaves the device table as it was and emits nothing
C26_MalformedDiscarded ==
    [][\A m \in Inbound :
         (/\ socket = "listening"
          /\ ~PresenceSchema(m[1])
          /\ now' = now
          /\ socket' = socket
          /\ handleMessage(m[1], m[2]))
         => /\ devices' = devices
            /\ dOut' = <<>>]_vars


\* ------------------------------------------------------------------- C27
\* the discovery service of one device whose identity is set at start(),
\* possibly without an email, and changed while it runs
NextPresence ==
    \/ \E email \in Emails \cup {Null} : Start("S", "n1", email)
    \/ \E ifs \in InterfaceSets : Listening(ifs)
    \/ \E email \in Emails \cup {Null} : updateEmail(email)
    \/ \E name \in DeviceNames : updateDeviceName(name)
    \/ \E ifs \in InterfaceSets : BroadcastTick(ifs)
    \/ cleanupStaleDevices
    \/ Stop
    \/ Advance

SpecPresence == Init /\ [][NextPresence]_vars

\* C27: a step sends presence messages only while the email is set, and
\* every message it sends carries the deviceId, deviceName and email the
\* instance holds at that step, to the value the last update gave them
C27_CurrentIdentity ==
    /\ sent # <<>> => myEmail # Null
    /\ \A k \in DOMAIN sent :
        /\ sent[k].type = "presence"
        /\ sent[k].deviceId = myDeviceId
        /\ sent[k].deviceName = myDeviceName
        /\ sent[k].email = myEmail

\* started as "n1" with "e1", renamed and given another email while
\* running: a later periodic tick sent the new name and email
C27_Witness ==
    /\ sent # <<>>
    /\ sent[1].deviceName = "n2"
    /\ sent[1].email = "e2"
    /\ sent[1].timestamp >= BROADCAST_INTERVAL
    /\ broadcastInterval = now + BROADCAST_INTERVAL


\* ------------------------------------------------------------------- C28
\* C28: every offer in OfferPresented whose transferId no other connection
\* carries is decidable: acceptTransfer and rejectTransfer with its
\* transferId pass their pending test
C28_NoOrphanedOffer ==
    \A c \in Conns :
        (/\ OfferPresented(c)
         /\ \A d \in Conns \ {c} : headerReceived[d] => IdOf(d) # IdOf(c))
        => IsPending(IdOf(c))


\* ------------------------------------------------------------------- C29
\* the data event that completes a well-formed header, with a host whose
\* transferRequest listener calls acceptTransfer(transferId) before it
\* returns: emit runs the listener inside the data handler, acceptTransfer
\* resumes the socket and clears the slot, and the data handler then goes
\* on to its socket.pause(); the data handler acceptTransfer registers is
\* not run for the event being delivered
AcceptInListener(c, k) ==
    /\ Readable(c)
    /\ ~headerReceived[c]
    /\ k \in 1..Len(s2r[c])
    /\ LET chunk == Take(s2r[c], k)
           buf1 == buffer[c] \o chunk
           nullIndex == IndexOfNul(buf1)
           headerStr == Take(buf1, nullIndex - 1)
           buf2 == Drop(buf1, nullIndex)
           info == ParseHeader(headerStr)
           id == info.transferId
           buf == Buffered([socket |-> c, transferInfo |-> info, buffer |-> buf2])
       IN /\ nullIndex # 0
          /\ HeaderParses(headerStr)
          /\ s2r' = Upd(s2r, c, Drop(s2r[c], k))
          /\ buffer' = Upd(buffer, c, buf2)
          /\ transferInfo' = Upd(transferInfo, c, info)
          /\ headerReceived' = Upd(headerReceived, c, TRUE)
          /\ r2s' = Upd(r2s, c, RecvWrite(c, <<AckText(TRUE), NUL>>))
          /\ fileStream' = Upd(fileStream, c, "writable")
          /\ fd' = Upd(fd, c, "opening")
          /\ activeTransfers' = [activeTransfers EXCEPT ![id] = c]
          /\ destContent' = Upd(destContent, c, buf)
          /\ receivedBytes' = Upd(receivedBytes, c, Len(buf))
          /\ accepted' = Upd(accepted, c, TRUE)
          /\ pendingTransfer' = NoPending
          /\ paused' = Upd(paused, c, TRUE)
          /\ Observe(<<Ev("transferRequest", id)>>
                     \o (IF Len(buf) > 0
                         THEN <<ProgressEvent(id, Len(buf), info.fileSize,
                                              "receiving")>>
                         ELSE <<>>))
    /\ UNCHANGED <<clock, senderVars, rSock, rEnded, destExists, historyVars>>
    /\ UNCHANGED <<discVars, mainVars>>

\* one transfer, from a sender that may write body bytes before the ack, to
\* a receiver whose host may accept inside the listener
NextListener ==
    \/ \E c \in RoundTrip :
         \/ \E content \in OfferContents : SendFile(c, content)
         \/ Connect(c)
         \/ \E k \in 1..Len(r2s[c]) : SenderData(c, k)
         \/ FileChunk(c)
         \/ FileEnd(c)
         \/ SenderClose(c)
         \/ \E k \in 1..Len(s2r[c]) : RecvData(c, k)
         \/ \E k \in 1..Len(s2r[c]) : AcceptInListener(c, k)
         \/ \E b \in Bytes : PeerWrite(c, b)
         \/ RecvClose(c)
    \/ \E id \in Ids :
         \/ AcceptTransfer(id)
         \/ RejectTransfer(id)
         \/ CancelTransfer(id)

SpecListener == Init /\ [][NextListener]_vars

\* C29: an accepted transfer that is not complete, not cancelled and whose
\* connection is open has its connection resumed
C29_ResumedAfterAccept ==
    \A c \in Conns :
        (/\ accepted[c]
         /\ rSock[c] = "open"
         /\ fileStream[c] = "writable"
         /\ c \notin cancelledConns)
        => ~paused[c]


\* ------------------------------------------------------------------- C30
\* C30: a step in which the receiver ends a connection for an invalid
\* header (it ends the connection and no rejectTransfer decided it) leaves
\* the pending slot and the active-transfer map as they were
C30_InvalidHeaderFrame ==
    [][\A c \in Conns :
         (~rEnded[c] /\ rEnded'[c] /\ c \notin rejectedConns')
         => /\ pendingTransfer' = pendingTransfer
            /\ activeTransfers' = activeTransfers]_vars


\* ------------------------------------------------------------------- C31
\* main.js (src/unnamed/part_001): the host that owns the two services
MaxInstances == 3   \* pairs of services one run of the application constructs

\* startServices(email): a new DeviceDiscovery is constructed and started
\* (its socket binds with reuseAddr beside any other), a new FileTransfer is
\* constructed and its server started; listen() obtains TRANSFER_PORT only
\* if no other server holds it
startServices ==
    LET n == created + 1
    IN /\ created < MaxInstances
       /\ created' = n
       /\ discovery' = n
       /\ startedDiscovery' = startedDiscovery \cup {n}
       /\ fileTransfer' = n
       /\ servers' = servers \cup {n}
       /\ portOwner' = IF portOwner = 0 THEN n ELSE portOwner

\* stopServices(): stops and forgets the instances the two variables refer to
stopServices ==
    /\ startedDiscovery' = startedDiscovery \ {discovery}
    /\ discovery' = 0
    /\ servers' = servers \ {fileTransfer}
    /\ portOwner' = IF portOwner = fileTransfer THEN 0 ELSE portOwner
    /\ fileTransfer' = 0

\* app.whenReady().then(...): the stored profile says whether a user is
\* logged in
WhenReady(isLoggedIn) ==
    /\ appState = "launching"
    /\ appState' = "ready"
    /\ IF isLoggedIn
       THEN startServices
       ELSE UNCHANGED <<created, discovery, fileTransfer, startedDiscovery,
                        servers, portOwner>>
    /\ UNCHANGED <<offerAt, ipcReturn, transferVars, discVars>>

\* ipcMain.handle('auth:verify-otp')
VerifyOtp(isValidTestCredentials) ==
    /\ appState = "ready"
    /\ IF isValidTestCredentials
       THEN startServices
       ELSE UNCHANGED <<created, discovery, fileTransfer, startedDiscovery,
                        servers, portOwner>>
    /\ UNCHANGED <<appState, offerAt, ipcReturn, transferVars, discVars>>

\* ipcMain.handle('auth:logout')
Logout ==
    /\ appState = "ready"
    /\ stopServices
    /\ UNCHANGED <<appState, created, offerAt, ipcReturn, transferVars, discVars>>

\* app.on('before-quit')
BeforeQuit ==
    /\ appState = "ready"
    /\ appState' = "quitting"
    /\ stopServices
    /\ UNCHANGED <<created, offerAt, ipcReturn, transferVars, discVars>>

\* a sender's header reaches the server that listens on TRANSFER_PORT: that
\* instance sets its pendingTransfer and its transferRequest listener
\* notifies the window
OfferArrives ==
    /\ appState = "ready"
    /\ portOwner # 0
    /\ offerAt = 0
    /\ offerAt' = portOwner
    /\ UNCHANGED <<appState, created, discovery, fileTransfer, startedDiscovery,
                   servers, portOwner, ipcReturn, transferVars, discVars>>

\* ipcMain.handle('transfer:accept') and ('transfer:reject') with the
\* transferId of the notified offer: the call goes to the instance
\* fileTransfer refers to, and returns false without one
TransferDecide ==
    /\ appState = "ready"
    /\ offerAt # 0
    /\ IF fileTransfer # 0 /\ fileTransfer = offerAt
       THEN /\ offerAt' = 0
            /\ ipcReturn' = "true"
       ELSE /\ ipcReturn' = "false"
            /\ UNCHANGED offerAt
    /\ UNCHANGED <<appState, created, discovery, fileTransfer, startedDiscovery,
                   servers, portOwner, transferVars, discVars>>

NextMain ==
    \/ \E isLoggedIn \in BOOLEAN : WhenReady(isLoggedIn)
    \/ \E valid \in BOOLEAN : VerifyOtp(valid)
    \/ Logout
    \/ BeforeQuit
    \/ OfferArrives
    \/ TransferDecide

SpecMain == Init /\ [][NextMain]_vars

\* C31: at most one DeviceDiscovery instance is started and at most one
\* FileTransfer server is open at a time, and the instance that receives
\* the accept and reject commands is the one that holds the pending offer
C31_SingleServices ==
    /\ Cardinality(startedDiscovery) <= 1
    /\ Cardinality(servers) <= 1
    /\ (offerAt # 0 /\ fileTransfer # 0) => fileTransfer = offerAt

====
